---- MODULE Spec2Model ----
(***************************************************************************)
(* Model of the signaling relay with rooms and targeted routing            *)
(* (src/unnamed/part_000, lines 1-136): the room registry `rooms`, the     *)
(* per-connection fields set by wss.on('connection'), the message, close   *)
(* and pong handlers, and the heartbeat sweep.                             *)
(*                                                                         *)
(* Node runs every handler to completion on one event loop, so each        *)
(* handler is one atomic action.  A JS Set is modelled as a TLA+ set (the  *)
(* insertion order only fixes the order of the peers inside a roster and   *)
(* the order in which a fan-out reaches different sockets); what one       *)
(* socket receives during a handler is kept in order in sent[c].           *)
(***************************************************************************)
EXTENDS Integers, Sequences, FiniteSets, TLC

\* ---- bounds ----
\* sockets accepted in a run
MaxConn == 3
\* entries (socket, room) the registry may hold: a join that would exceed it is not offered
MaxMembers == 3

\* ---- values ----
\* a JS string holding a room name is a sequence of characters
Whitespace == { " " }
UNDEF == "undefined"
\* ws.roomId = null (line 61): a value that is no string
Null == << "null" >>
\* a msg.room that is absent or not a string
NotAString == << UNDEF >>

RelayTypes == { "offer", "answer", "candidate", "bye", "need-offer", "keepalive" }
UUIDS == << "id1", "id2", "id3", "id4", "id5", "id6" >>
UnknownId == "idX"

\* an envelope: the fields the handler reads, UNDEF (NotAString for room) when absent
Envelope(t, room, role, to, from, body) ==
  [ parses |-> TRUE, type |-> t, room |-> room, role |-> role, to |-> to, from |-> from, body |-> body ]

\* the join envelopes offered: a whitespace-only room, room "a" as sender,
\* room " b " with another role value, and a join without a string room
JoinEnvelopes ==
  { Envelope("join", << " " >>, UNDEF, UNDEF, UNDEF, UNDEF),
    Envelope("join", << "a" >>, "sender", UNDEF, UNDEF, UNDEF),
    Envelope("join", << " ", "b", " " >>, "viewer", UNDEF, UNDEF, UNDEF),
    Envelope("join", NotAString, UNDEF, UNDEF, UNDEF, UNDEF) }

\* the other envelopes offered: a room broadcast (one with a forged `from`), a
\* unicast to each issued id and to an id nobody has, and an unrecognised type
OtherEnvelopes ==
  { Envelope("offer", NotAString, UNDEF, UNDEF, UNDEF, "sdp"),
    Envelope("candidate", NotAString, UNDEF, UNDEF, UnknownId, "ice"),
    Envelope("offer", NotAString, UNDEF, UnknownId, UNDEF, "sdp"),
    Envelope("chat", NotAString, UNDEF, UNDEF, UNDEF, "hi") }
  \cup { Envelope("offer", NotAString, UNDEF, UUIDS[i], UNDEF, "sdp") : i \in 1..MaxConn }

\* what arrives on the socket: text that JSON.parse rejects, or an envelope
BadFrame == [ parses |-> FALSE ]
Frames == JoinEnvelopes \cup OtherEnvelopes \cup { BadFrame }
\* the frames offered while the heartbeat runs
LiveFrames ==
  { Envelope("join", << "a" >>, "sender", UNDEF, UNDEF, UNDEF),
    Envelope("join", << " ", "b", " " >>, "viewer", UNDEF, UNDEF, UNDEF),
    Envelope("offer", NotAString, UNDEF, UNDEF, UNDEF, "sdp") }

VARIABLES
  ws,      \* the sockets accepted so far, in accept order: id, roomId, role, isAlive, readyState
  rooms,   \* the Map roomId -> Set<ws>: a function whose domain is the Map's keys
  sent,    \* sent[c]: what the last handler sent to socket c, in order
  last     \* the last handler that ran, its input and the fields of the socket when it started

vars == << ws, rooms, sent, last >>

Conns == DOMAIN ws

\* String.prototype.trim
RECURSIVE TrimLeft(_)
TrimLeft(s) ==
  IF s # <<>> /\ Head(s) \in Whitespace THEN TrimLeft(Tail(s)) ELSE s

RECURSIVE TrimRight(_)
TrimRight(s) ==
  IF s # <<>> /\ s[Len(s)] \in Whitespace THEN TrimRight(SubSeq(s, 1, Len(s) - 1)) ELSE s

trim(s) == TrimRight(TrimLeft(s))

\* the room test written as `ws.roomId === null`
Truthy_NullOnly(r) == r # Null

\* JS truthiness of ws.roomId (null and "" are falsy)
Truthy(r) == r # Null /\ r # <<>>
\* JS truthiness of a string field (undefined and "" are falsy)
TruthyStr(v) == v # UNDEF /\ v # ""

randomUUID(n) == UUIDS[n]

NoSends == [ c \in Conns |-> <<>> ]

\* rooms.has(roomId)
has(rs, roomId) == roomId \in DOMAIN rs

\* getRoomSet(roomId).add(c): creates the entry when absent, then adds
getRoomSetAdd(rs, roomId, c) ==
  [ r \in DOMAIN rs \cup {roomId} |->
      IF r = roomId THEN (IF has(rs, r) THEN rs[r] ELSE {}) \cup {c} ELSE rs[r] ]

\* roster(roomId)
roster(rs, w, roomId) ==
  IF ~has(rs, roomId) THEN {}
  ELSE { [ id |-> w[s].id, role |-> IF TruthyStr(w[s].role) THEN w[s].role ELSE "receiver" ] :
           s \in rs[roomId] }

\* broadcast's loop without the `s.readyState === s.OPEN` test
broadcastTargets_NoReadyState(rs, w, roomId, exclude) ==
  IF ~has(rs, roomId) THEN {}
  ELSE { s \in rs[roomId] : s # exclude }

\* broadcast's loop without the `s !== exclude` test
broadcastTargets_NoExclude(rs, w, roomId, exclude) ==
  IF ~has(rs, roomId) THEN {}
  ELSE { s \in rs[roomId] : w[s].readyState = "OPEN" }

\* the sockets a broadcast(roomId, obj, exclude) sends to; exclude = 0 when not given
broadcastTargets(rs, w, roomId, exclude) ==
  IF ~has(rs, roomId) THEN {}
  ELSE { s \in rs[roomId] : s # exclude /\ w[s].readyState = "OPEN" }

\* broadcast(roomId, obj, exclude), appended to the sends made so far
broadcast(out, rs, w, roomId, obj, exclude) ==
  [ c \in DOMAIN out |->
      IF c \in broadcastTargets(rs, w, roomId, exclude) THEN Append(out[c], obj) ELSE out[c] ]

\* sendTo's loop without the `s.id === peerId` test
sendToTargets_AnyMember(rs, w, roomId, peerId) ==
  IF ~has(rs, roomId) THEN {}
  ELSE LET hits == { s \in rs[roomId] : w[s].readyState = "OPEN" }
       IN  IF hits = {} THEN {} ELSE { CHOOSE s \in hits : \A o \in hits : s <= o }

\* the sockets sendTo(roomId, peerId, obj) sends to: the first open member with that id
sendToTargets(rs, w, roomId, peerId) ==
  IF ~has(rs, roomId) THEN {}
  ELSE LET hits == { s \in rs[roomId] : w[s].id = peerId /\ w[s].readyState = "OPEN" }
       IN  IF hits = {} THEN {} ELSE { CHOOSE s \in hits : \A o \in hits : s <= o }

sendTo(out, rs, w, roomId, peerId, obj) ==
  [ c \in DOMAIN out |->
      IF c \in sendToTargets(rs, w, roomId, peerId) THEN Append(out[c], obj) ELSE out[c] ]

\* ws.send(obj) on socket c
send(out, c, obj) == [ out EXCEPT ![c] = Append(@, obj) ]

Init ==
  /\ ws = <<>>
  /\ rooms = << >>
  /\ sent = << >>
  /\ last = [ kind |-> "init" ]

\* wss.on('connection')
Accept ==
  /\ Len(ws) < MaxConn
  /\ LET c == Len(ws) + 1
         id == randomUUID(c)
     IN  /\ ws' = Append(ws, [ id |-> id, roomId |-> Null, role |-> "receiver",
                               isAlive |-> TRUE, readyState |-> "OPEN" ])
         /\ sent' = [ d \in 1..c |-> IF d = c THEN << [ type |-> "hello", id |-> id ] >> ELSE <<>> ]
         /\ last' = [ kind |-> "connection", conn |-> c ]
  /\ UNCHANGED rooms

\* ws.on('pong'): a pong answers the ping of the sweep that cleared the flag
Pong(c) ==
  /\ ws[c].readyState = "OPEN"
  /\ ~ws[c].isAlive
  /\ ws' = [ ws EXCEPT ![c].isAlive = TRUE ]
  /\ sent' = NoSends
  /\ last' = [ kind |-> "pong", conn |-> c ]
  /\ UNCHANGED rooms

\* the join branch taking the roster snapshot before the socket is added
JoinEffect_RosterBeforeAdd(c, msg) ==
  LET roomId == trim(msg.room)
      role   == IF msg.role = "sender" THEN "sender" ELSE "receiver"
      w1     == [ ws EXCEPT ![c].roomId = roomId, ![c].role = role ]
      rs1    == getRoomSetAdd(rooms, roomId, c)
      o1     == broadcast(NoSends, rs1, w1, roomId, [ type |-> "peer-joined", id |-> w1[c].id, role |-> role ], c)
      r      == roster(rooms, w1, roomId)
      o2     == broadcast(o1, rs1, w1, roomId, [ type |-> "roster", peers |-> r ], 0)
      o3     == send(o2, c, [ type |-> "roster", peers |-> r ])
  IN  /\ ws' = w1
      /\ rooms' = rs1
      /\ sent' = o3

\* the join branch of ws.on('message')
JoinEffect(c, msg) ==
  LET roomId == trim(msg.room)
      role   == IF msg.role = "sender" THEN "sender" ELSE "receiver"
      w1     == [ ws EXCEPT ![c].roomId = roomId, ![c].role = role ]
      rs1    == getRoomSetAdd(rooms, roomId, c)
      o1     == broadcast(NoSends, rs1, w1, roomId, [ type |-> "peer-joined", id |-> w1[c].id, role |-> role ], c)
      r      == roster(rs1, w1, roomId)
      o2     == broadcast(o1, rs1, w1, roomId, [ type |-> "roster", peers |-> r ], 0)
      o3     == send(o2, c, [ type |-> "roster", peers |-> r ])
  IN  /\ ws' = w1
      /\ rooms' = rs1
      /\ sent' = o3

\* the forward branch spreading msg over `from` ({ from: ws.id, ...msg })
RelayEffect_KeepsFrom(c, msg) ==
  LET payload == IF msg.from = UNDEF THEN [ msg EXCEPT !.from = ws[c].id ] ELSE msg
  IN  /\ sent' = IF TruthyStr(msg.to)
                 THEN sendTo(NoSends, rooms, ws, ws[c].roomId, msg.to, payload)
                 ELSE broadcast(NoSends, rooms, ws, ws[c].roomId, payload, c)
      /\ UNCHANGED << ws, rooms >>

\* the forward branch of ws.on('message')
RelayEffect(c, msg) ==
  LET payload == [ msg EXCEPT !.from = ws[c].id ]
  IN  /\ sent' = IF TruthyStr(msg.to)
                 THEN sendTo(NoSends, rooms, ws, ws[c].roomId, msg.to, payload)
                 ELSE broadcast(NoSends, rooms, ws, ws[c].roomId, payload, c)
      /\ UNCHANGED << ws, rooms >>

\* t === 'join' && typeof msg.room === 'string', for a frame that may not parse
IsJoin(raw) == raw.parses /\ raw.type = "join" /\ raw.room # NotAString

\* the number of (socket, room) entries of the registry
RECURSIVE SumCard(_, _)
SumCard(rs, D) ==
  IF D = {} THEN 0
  ELSE LET r == CHOOSE r \in D : TRUE IN Cardinality(rs[r]) + SumCard(rs, D \ {r})

Members(rs) == SumCard(rs, DOMAIN rs)

\* ws.on('message') forwarding every type of a joined socket, as the older relay did
Message_RelaysAnyType(c, raw) ==
  /\ ws[c].readyState = "OPEN"
  /\ IsJoin(raw) => Members(getRoomSetAdd(rooms, trim(raw.room), c)) <= MaxMembers
  /\ last' = [ kind |-> "message", conn |-> c, raw |-> raw, roomId |-> ws[c].roomId, role |-> ws[c].role ]
  /\ IF ~raw.parses
     THEN /\ sent' = NoSends
          /\ UNCHANGED << ws, rooms >>
     ELSE IF IsJoin(raw)
     THEN JoinEffect(c, raw)
     ELSE IF ~Truthy(ws[c].roomId)
     THEN /\ sent' = NoSends
          /\ UNCHANGED << ws, rooms >>
     ELSE RelayEffect(c, raw)

\* ws.on('message') whose catch closes the socket instead of returning
Message_BadFrameCloses(c, raw) ==
  /\ ws[c].readyState = "OPEN"
  /\ IsJoin(raw) => Members(getRoomSetAdd(rooms, trim(raw.room), c)) <= MaxMembers
  /\ last' = [ kind |-> "message", conn |-> c, raw |-> raw, roomId |-> ws[c].roomId, role |-> ws[c].role ]
  /\ IF ~raw.parses
     THEN /\ sent' = NoSends
          /\ ws' = [ ws EXCEPT ![c].readyState = "CLOSING" ]
          /\ UNCHANGED rooms
     ELSE IF IsJoin(raw)
     THEN JoinEffect(c, raw)
     ELSE IF ~Truthy(ws[c].roomId)
     THEN /\ sent' = NoSends
          /\ UNCHANGED << ws, rooms >>
     ELSE IF raw.type \in RelayTypes
     THEN RelayEffect(c, raw)
     ELSE /\ sent' = NoSends
          /\ UNCHANGED << ws, rooms >>

\* ws.on('message'): frames are read from an open socket; a join that would take the
\* registry past MaxMembers entries is not offered
Message(c, raw) ==
  /\ ws[c].readyState = "OPEN"
  /\ IsJoin(raw) => Members(getRoomSetAdd(rooms, trim(raw.room), c)) <= MaxMembers
  /\ last' = [ kind |-> "message", conn |-> c, raw |-> raw, roomId |-> ws[c].roomId, role |-> ws[c].role ]
  /\ IF ~raw.parses
     THEN /\ sent' = NoSends
          /\ UNCHANGED << ws, rooms >>
     ELSE IF IsJoin(raw)
     THEN JoinEffect(c, raw)
     ELSE IF ~Truthy(ws[c].roomId)
     THEN /\ sent' = NoSends
          /\ UNCHANGED << ws, rooms >>
     ELSE IF raw.type \in RelayTypes
     THEN RelayEffect(c, raw)
     ELSE /\ sent' = NoSends
          /\ UNCHANGED << ws, rooms >>

\* the transport of socket c starts closing (a close frame arrives, the socket ends,
\* or terminate() destroyed it): readyState leaves OPEN before 'close' is emitted
BeginClose(c) ==
  /\ ws[c].readyState = "OPEN"
  /\ ws' = [ ws EXCEPT ![c].readyState = "CLOSING" ]
  /\ sent' = NoSends
  /\ last' = [ kind |-> "closing", conn |-> c ]
  /\ UNCHANGED rooms

\* the close handler's removal without `rooms.delete(roomId)`
leave_KeepsEmptyRoom(rs, roomId, c) == [ rs EXCEPT ![roomId] = rs[roomId] \ {c} ]

\* set.delete(ws); if (set.size === 0) rooms.delete(roomId)
leave(rs, roomId, c) ==
  LET set == rs[roomId] \ {c}
  IN  IF set = {} THEN [ r \in DOMAIN rs \ {roomId} |-> rs[r] ]
      ELSE [ rs EXCEPT ![roomId] = set ]

\* the close handler taking the roster before the removal
Close_RosterBeforeLeave(c) ==
  /\ ws[c].readyState \in { "OPEN", "CLOSING" }
  /\ LET roomId == ws[c].roomId
         w1     == [ ws EXCEPT ![c].readyState = "CLOSED" ]
     IN  /\ ws' = w1
         /\ last' = [ kind |-> "close", conn |-> c, roomId |-> roomId, role |-> ws[c].role,
                      readyState |-> ws[c].readyState, isAlive |-> ws[c].isAlive ]
         /\ IF Truthy(roomId) /\ has(rooms, roomId)
            THEN LET rs1 == leave(rooms, roomId, c)
                     o1  == broadcast(NoSends, rs1, w1, roomId, [ type |-> "peer-left", id |-> ws[c].id ], 0)
                     o2  == broadcast(o1, rs1, w1, roomId, [ type |-> "roster", peers |-> roster(rooms, w1, roomId) ], 0)
                 IN  /\ rooms' = rs1
                     /\ sent' = IF has(rs1, roomId) THEN o2 ELSE NoSends
            ELSE /\ sent' = NoSends
                 /\ UNCHANGED rooms

\* ws.on('close')
Close(c) ==
  /\ ws[c].readyState \in { "OPEN", "CLOSING" }
  /\ LET roomId == ws[c].roomId
         w1     == [ ws EXCEPT ![c].readyState = "CLOSED" ]
     IN  /\ ws' = w1
         /\ last' = [ kind |-> "close", conn |-> c, roomId |-> roomId, role |-> ws[c].role,
                      readyState |-> ws[c].readyState, isAlive |-> ws[c].isAlive ]
         /\ IF Truthy(roomId) /\ has(rooms, roomId)
            THEN LET rs1 == leave(rooms, roomId, c)
                     o1  == broadcast(NoSends, rs1, w1, roomId, [ type |-> "peer-left", id |-> ws[c].id ], 0)
                     o2  == broadcast(o1, rs1, w1, roomId, [ type |-> "roster", peers |-> roster(rs1, w1, roomId) ], 0)
                 IN  /\ rooms' = rs1
                     /\ sent' = IF has(rs1, roomId) THEN o2 ELSE NoSends
            ELSE /\ sent' = NoSends
                 /\ UNCHANGED rooms

\* wss.clients: the sockets whose 'close' has not been emitted
clients == { c \in Conns : ws[c].readyState # "CLOSED" }

\* the heartbeat callback terminating without the `!ws.isAlive` test
Sweep_NoFlagTest ==
  /\ clients # {}
  /\ ws' = [ c \in Conns |->
               IF c \notin clients THEN ws[c]
               ELSE [ ws[c] EXCEPT !.readyState = "CLOSING" ] ]
  /\ sent' = NoSends
  /\ last' = [ kind |-> "sweep", terminated |-> clients ]
  /\ UNCHANGED rooms

\* the heartbeat setInterval callback
Sweep ==
  /\ clients # {}
  /\ ws' = [ c \in Conns |->
               IF c \notin clients THEN ws[c]
               ELSE IF ~ws[c].isAlive THEN [ ws[c] EXCEPT !.readyState = "CLOSING" ]
               ELSE [ ws[c] EXCEPT !.isAlive = FALSE ] ]
  /\ sent' = NoSends
  /\ last' = [ kind |-> "sweep", terminated |-> { c \in clients : ~ws[c].isAlive } ]
  /\ UNCHANGED rooms

\* the relay without the heartbeat timer
Next ==
  \/ Accept
  \/ \E c \in Conns, raw \in Frames : Message(c, raw)
  \/ \E c \in Conns : BeginClose(c)
  \/ \E c \in Conns : Close(c)

Spec == Init /\ [][Next]_vars

\* the relay with the heartbeat timer
NextLive ==
  \/ Accept
  \/ \E c \in Conns, raw \in LiveFrames : Message(c, raw)
  \/ \E c \in Conns : BeginClose(c)
  \/ \E c \in Conns : Close(c)
  \/ \E c \in Conns : Pong(c)
  \/ Sweep

SpecLive == Init /\ [][NextLive]_vars

\* the relay with the heartbeat timer when no transport starts closing by itself: a
\* socket leaves OPEN only through terminate() or an immediate 'close'
NextSweep ==
  \/ Accept
  \/ \E c \in Conns, raw \in LiveFrames : Message(c, raw)
  \/ \E c \in Conns : Close(c)
  \/ \E c \in Conns : Pong(c)
  \/ Sweep

SpecSweep == Init /\ [][NextSweep]_vars

\* ---- vocabulary of the properties ----

\* members(room_id): the member set of a room, empty when the room has no entry
MembersOf(r) == IF has(rooms, r) THEN rooms[r] ELSE {}

\* the rooms whose member set holds socket c
RoomsOf(c) == { r \in DOMAIN rooms : c \in rooms[r] }

\* the room identifiers a join can produce
RoomIds == { trim(e.room) : e \in { j \in JoinEnvelopes : IsJoin(j) } }

\* every room socket c has joined: a join adds c to the room it names and makes it
\* ws.roomId, and the close handler removes c from ws.roomId only
EverJoined(c) == RoomsOf(c) \cup ({ ws[c].roomId } \ { Null })

\* how many messages of type t a socket received from the last handler
Count(seq, t) == Cardinality({ i \in 1..Len(seq) : seq[i].type = t })

\* the sockets the last handler sent anything to
Recipients == { c \in Conns : sent[c] # <<>> }

\* the last handler was ws.on('message') taking the join branch
LastIsJoin == last.kind = "message" /\ IsJoin(last.raw)

\* the last handler was ws.on('message') with a relay-eligible envelope of a joined socket
LastIsRelay ==
  /\ last.kind = "message"
  /\ last.raw.parses
  /\ ~IsJoin(last.raw)
  /\ last.raw.type \in RelayTypes
  /\ Truthy(last.roomId)

\* ---- C1 ----
\* C1: in every reachable state no socket is in the member sets of two different rooms.
\* Stated as claimed; the join branch adds the socket to the new room and never
\* removes it from the room it joined before.
C1_AtMostOneRoom == \A c \in Conns : Cardinality(RoomsOf(c)) <= 1

\* ---- C2 ----
\* C2: once the close handler of a socket has run, the socket is in no room's member
\* set.  Stated as claimed; the close handler removes the socket from ws.roomId only,
\* and from nothing when ws.roomId is "".
C2_ClosedInNoRoom == \A c \in Conns : ws[c].readyState = "CLOSED" => RoomsOf(c) = {}

\* ---- C3 ----
\* C3: a room identifier is a key of the registry if and only if its member set is
\* non-empty: no entry holds an empty set, and a room without entry has no member.
C3_RoomIffNonEmpty ==
  /\ \A r \in DOMAIN rooms : rooms[r] # {}
  /\ \A r \in RoomIds : has(rooms, r) <=> MembersOf(r) # {}

\* C3 witness: the close of the last member of a room removed its entry while another
\* room keeps its entry.
C3_Witness ==
  /\ last.kind = "close"
  /\ Truthy(last.roomId)
  /\ ~has(rooms, last.roomId)
  /\ DOMAIN rooms # {}

\* ---- C4 ----
\* C4: after every socket that ever joined room R has closed, R is absent from the
\* registry: members(R) is empty and the roster of R is the empty list.  Stated as
\* claimed.
C4_AbsentAfterAllClosed ==
  \A r \in RoomIds :
    (\A c \in Conns : r \in EverJoined(c) => ws[c].readyState = "CLOSED")
      => /\ ~has(rooms, r)
         /\ MembersOf(r) = {}
         /\ roster(rooms, ws, r) = {}

\* ---- C5 ----
\* C5: a join processed for a socket that already has a room is a no-op: the socket's
\* room and role and every member set are unchanged.  Stated as claimed.
C5_SecondJoinNoOp ==
  [][ (/\ last'.kind = "message"
       /\ IsJoin(last'.raw)
       /\ Truthy(ws[last'.conn].roomId))
      => /\ ws' = ws
         /\ rooms' = rooms ]_vars

\* ---- C6 ----
\* C6: a join whose room is empty after trimming is discarded: no room entry is
\* created, the socket stays unjoined and in no member set, and nothing is sent.
\* Stated as claimed.
C6_EmptyRoomDiscarded ==
  (LastIsJoin /\ trim(last.raw.room) = <<>>)
    => /\ ~has(rooms, <<>>)
       /\ ws[last.conn].roomId = last.roomId
       /\ ws[last.conn].role = last.role
       /\ Recipients = {}

\* ---- C7 ----
\* the members the room of the last join had before the joining socket
Existing == MembersOf(trim(last.raw.room)) \ { last.conn }

\* the roster of room r as the claims state it: one {id, role} per member
PeersOf(r) == { [ id |-> ws[m].id, role |-> ws[m].role ] : m \in MembersOf(r) }

\* C7: when a socket that never joined joins room R whose existing members are all
\* open, each existing member receives exactly one peer-joined carrying the joiner's
\* id and role, and exactly one roster listing exactly the existing members plus the
\* joiner.
C7_ExistingMembersNotified ==
  (/\ LastIsJoin
   /\ last.roomId = Null
   /\ \A m \in Existing : ws[m].readyState = "OPEN")
    => \A m \in Existing :
         /\ Count(sent[m], "peer-joined") = 1
         /\ Count(sent[m], "roster") = 1
         /\ \E i \in 1..Len(sent[m]) :
              sent[m][i] = [ type |-> "peer-joined", id |-> ws[last.conn].id, role |-> ws[last.conn].role ]
         /\ \E i \in 1..Len(sent[m]) :
              sent[m][i] = [ type |-> "roster", peers |-> PeersOf(trim(last.raw.room)) ]
         /\ Cardinality(PeersOf(trim(last.raw.room))) = Cardinality(Existing) + 1

\* C7 witness: a first join into a room that already had two open members, one of
\* which entered as sender.
C7_Witness ==
  /\ LastIsJoin
  /\ last.roomId = Null
  /\ Cardinality(Existing) = 2
  /\ \A m \in Existing : ws[m].readyState = "OPEN" /\ sent[m] # <<>>
  /\ ws[last.conn].role = "sender"

\* ---- C8 ----
\* C8: the joining socket receives exactly one roster for its join and no peer-joined
\* about itself.  Stated as claimed; the join branch broadcasts the roster to the whole
\* room, the joiner included, and then sends it to the joiner again.
C8_JoinerGetsOneRoster ==
  LastIsJoin
    => /\ Count(sent[last.conn], "roster") = 1
       /\ Count(sent[last.conn], "peer-joined") = 0

\* ---- C9 ----
\* C9: a relay-eligible envelope without `to` sent by a joined socket is delivered
\* once to every other open member of the sender's room, to nobody else, and never to
\* the sender.
C9_BroadcastExcludesSender ==
  (LastIsRelay /\ ~TruthyStr(last.raw.to))
    => /\ last.conn \notin Recipients
       /\ Recipients = { m \in MembersOf(last.roomId) \ { last.conn } : ws[m].readyState = "OPEN" }
       /\ \A m \in Recipients : Len(sent[m]) = 1 /\ sent[m][1].type = last.raw.type

\* C9 witness: a room broadcast that reached two other members.
C9_Witness ==
  /\ LastIsRelay
  /\ ~TruthyStr(last.raw.to)
  /\ last.conn \in MembersOf(last.roomId)
  /\ Cardinality(Recipients) = 2

\* ---- C10 ----
\* C10: a relay-eligible envelope with `to` = X sent by a socket in room R is delivered
\* only to the member of R whose id is X (once, when that member is open); when no
\* member of R has id X nobody receives it; the registry does not change.
C10_UnicastOnlyToNamedPeer ==
  [][ (/\ last'.kind = "message"
       /\ last'.raw.parses
       /\ ~IsJoin(last'.raw)
       /\ last'.raw.type \in RelayTypes
       /\ Truthy(ws[last'.conn].roomId)
       /\ TruthyStr(last'.raw.to))
      => LET R     == ws[last'.conn].roomId
             named == { m \in MembersOf(R) : ws[m].id = last'.raw.to }
         IN  /\ Recipients' \subseteq named
             /\ \A m \in named : ws[m].readyState = "OPEN" => Len(sent'[m]) = 1
             /\ named = {} => Recipients' = {}
             /\ rooms' = rooms
             /\ ws' = ws ]_vars

\* C10 witness: a unicast reached the named member while another open member of the
\* same room received nothing.
C10_Witness ==
  /\ LastIsRelay
  /\ TruthyStr(last.raw.to)
  /\ \E m \in MembersOf(last.roomId) \ { last.conn } :
       /\ Recipients = { m }
       /\ ws[m].id = last.raw.to
       /\ \E o \in MembersOf(last.roomId) \ { last.conn, m } : ws[o].readyState = "OPEN"

\* C10 witness of the silent no-op: a unicast to an id no member of the room has,
\* while the room has another open member.
C10_WitnessNoPeer ==
  /\ LastIsRelay
  /\ TruthyStr(last.raw.to)
  /\ \A m \in MembersOf(last.roomId) : ws[m].id # last.raw.to
  /\ \E o \in MembersOf(last.roomId) \ { last.conn } : ws[o].readyState = "OPEN"
  /\ Recipients = {}

\* ---- C11 ----
\* C11: no relayed envelope is delivered to the socket that sent it, unicast
\* included, also when `to` names the sender's own id.  Stated as claimed; sendTo has
\* no test against the sender.
C11_NoSelfDelivery == LastIsRelay => last.conn \notin Recipients

\* ---- C12 ----
\* C12: a relay-eligible envelope from a socket that has no room (ws.roomId null, or ""
\* after a join the relay treats as no room) is discarded: nothing is delivered, the
\* registry is unchanged, and the sender stays open and unjoined.
C12_UnjoinedRelayDropped ==
  [][ (/\ last'.kind = "message"
       /\ last'.raw.parses
       /\ last'.raw.type \in RelayTypes
       /\ ws[last'.conn].roomId \in { Null, <<>> })
      => /\ Recipients' = {}
         /\ rooms' = rooms
         /\ ws' = ws
         /\ ws'[last'.conn].readyState = "OPEN" ]_vars

\* C12 witness: a socket without room sent a relay-eligible envelope while two other
\* sockets that could have received it share a room; nothing was sent.
C12_Witness ==
  /\ last.kind = "message"
  /\ last.raw.parses
  /\ last.raw.type \in RelayTypes
  /\ last.roomId = Null
  /\ ws[last.conn].roomId = Null
  /\ ws[last.conn].readyState = "OPEN"
  /\ Recipients = {}
  /\ \E r \in DOMAIN rooms : \E m \in rooms[r] : m # last.conn /\ ws[m].readyState = "OPEN"

\* C12 witness for a socket whose only join named a whitespace-only room: its relay is
\* dropped although room "" has another open member.
C12_WitnessEmptyRoom ==
  /\ last.kind = "message"
  /\ last.raw.parses
  /\ last.raw.type \in RelayTypes
  /\ last.roomId = <<>>
  /\ Recipients = {}
  /\ \E m \in MembersOf(<<>>) : m # last.conn /\ ws[m].readyState = "OPEN"

\* ---- C13 ----
\* the fields of an envelope other than `from`
OtherFields == { "parses", "type", "room", "role", "to", "body" }

\* C13: every relayed envelope that is delivered carries `from` equal to the id of the
\* socket that sent it, whatever `from` the inbound envelope carried, and every other
\* field as it came in.
C13_FromRestamped ==
  LastIsRelay
    => \A m \in Recipients : \A i \in 1..Len(sent[m]) :
         /\ sent[m][i].from = ws[last.conn].id
         /\ \A f \in OtherFields : sent[m][i][f] = last.raw[f]

\* C13 witness: an envelope that came in with a forged `from` was delivered.
C13_Witness ==
  /\ LastIsRelay
  /\ last.raw.from = UnknownId
  /\ last.raw.from # ws[last.conn].id
  /\ Recipients # {}

\* ---- C14 ----
\* C14: when a joined socket closes and its room still has members, each remaining
\* open member receives exactly one peer-left carrying the closed socket's id and
\* exactly one roster listing exactly the remaining members; when it was the sole
\* member nothing is sent to anyone.  Members are the sockets of the room's set.
C14_PeerLeftOnClose ==
  (last.kind = "close" /\ Truthy(last.roomId))
    => /\ last.conn \notin MembersOf(last.roomId)
       /\ Recipients = { m \in MembersOf(last.roomId) : ws[m].readyState = "OPEN" }
       /\ \A m \in Recipients :
            sent[m] = << [ type |-> "peer-left", id |-> ws[last.conn].id ],
                         [ type |-> "roster", peers |-> PeersOf(last.roomId) ] >>
       /\ MembersOf(last.roomId) = {} => Recipients = {}

\* C14 witness: a sender terminated or closing left a room in which two open members
\* remain and were notified.
C14_Witness ==
  /\ last.kind = "close"
  /\ Truthy(last.roomId)
  /\ Cardinality(Recipients) = 2
  /\ Cardinality(PeersOf(last.roomId)) = 2

\* C14 witness of the silent case: the sole member of a room closed.
C14_WitnessSole ==
  /\ last.kind = "close"
  /\ Truthy(last.roomId)
  /\ ~has(rooms, last.roomId)
  /\ Recipients = {}
  /\ \E c \in Conns : ws[c].readyState = "OPEN"

\* ---- C15 ----
\* C15: a socket that stops replying to liveness probes is terminated, and after its
\* close handling it is in no room's member set.  Stated as claimed, under SpecSweep,
\* for the socket whose close handler just ran after a sweep terminated it (its
\* transport was CLOSING, which only terminate() causes there, and its flag false).
C15_TerminatedAbsent ==
  (last.kind = "close" /\ ~last.isAlive /\ last.readyState = "CLOSING")
    => RoomsOf(last.conn) = {}

\* ---- C16 ----
\* the room the last handler fanned out to, and the socket it left out
FanOutRoom ==
  IF LastIsJoin THEN trim(last.raw.room) ELSE last.roomId

FanOutExcluded ==
  IF LastIsRelay THEN { last.conn } ELSE {}

LastIsFanOut ==
  \/ LastIsJoin
  \/ LastIsRelay /\ ~TruthyStr(last.raw.to)
  \/ last.kind = "close" /\ Truthy(last.roomId)

\* C16: every send is made to a socket whose transport is open; a member that is not
\* open is skipped and the open members of the same fan-out are still served.
C16_SendsOnlyToOpen ==
  /\ \A c \in Recipients : ws[c].readyState = "OPEN"
  /\ LastIsFanOut =>
       \A m \in MembersOf(FanOutRoom) \ FanOutExcluded :
         ws[m].readyState = "OPEN" => m \in Recipients
  /\ (LastIsRelay /\ TruthyStr(last.raw.to)) =>
       \A m \in MembersOf(last.roomId) :
         (ws[m].id = last.raw.to /\ ws[m].readyState = "OPEN") => m \in Recipients

\* C16 witness: a room broadcast skipped a member whose transport is closing and
\* reached another member.
C16_Witness ==
  /\ LastIsRelay
  /\ ~TruthyStr(last.raw.to)
  /\ \E m \in MembersOf(last.roomId) \ { last.conn } :
       ws[m].readyState = "CLOSING" /\ m \notin Recipients
  /\ Recipients # {}

\* ---- C17 ----
\* C17: an envelope of a joined socket whose type is neither join nor relay-eligible
\* is discarded: nothing is delivered and the registry and the sockets are unchanged.
C17_UnknownTypeDiscarded ==
  [][ (/\ last'.kind = "message"
       /\ last'.raw.parses
       /\ last'.raw.type \notin RelayTypes \cup { "join" }
       /\ Truthy(ws[last'.conn].roomId))
      => /\ Recipients' = {}
         /\ rooms' = rooms
         /\ ws' = ws ]_vars

\* C17 witness: a joined socket sent an unrecognised type while another open socket
\* shares its room.
C17_Witness ==
  /\ last.kind = "message"
  /\ last.raw.parses
  /\ last.raw.type = "chat"
  /\ Truthy(last.roomId)
  /\ \E m \in MembersOf(last.roomId) \ { last.conn } : ws[m].readyState = "OPEN"
  /\ Recipients = {}

\* ---- C18 ----
\* C18: a frame that does not parse is discarded: the socket stays open with its room,
\* role and liveness flag, the registry is unchanged and nothing is sent.
C18_BadFrameDiscarded ==
  [][ (last'.kind = "message" /\ ~last'.raw.parses)
      => /\ Recipients' = {}
         /\ rooms' = rooms
         /\ ws' = ws
         /\ ws'[last'.conn].readyState = "OPEN" ]_vars

\* C18 witness: a joined socket with a roommate sent a frame that does not parse and
\* is still open in its room.
C18_Witness ==
  /\ last.kind = "message"
  /\ ~last.raw.parses
  /\ Truthy(last.roomId)
  /\ ws[last.conn].readyState = "OPEN"
  /\ ws[last.conn].roomId = last.roomId
  /\ \E m \in MembersOf(last.roomId) \ { last.conn } : ws[m].readyState = "OPEN"
  /\ Recipients = {}

\* ---- C19 ----
\* C19: a sweep terminates a socket only if its liveness flag is false at the sweep,
\* and otherwise clears the flag and leaves the transport alone; no other handler
\* clears the flag, accept and pong set it.  So a socket that answers every probe
\* before the next sweep, or that was accepted since the last sweep, is not
\* terminated by the sweep.
C19_SweepTerminatesOnlyDead ==
  [][ /\ last'.kind = "sweep" =>
           \A c \in Conns : ws[c].readyState # "CLOSED" =>
             IF ws[c].isAlive
             THEN ws'[c].readyState = ws[c].readyState /\ ~ws'[c].isAlive
             ELSE ws'[c].readyState = "CLOSING"
      /\ last'.kind # "sweep" => \A c \in Conns : ws[c].isAlive => ws'[c].isAlive
      /\ last'.kind \in { "connection", "pong" } => ws'[last'.conn].isAlive ]_vars

\* C19 witness: one sweep terminated a socket that had not answered and spared an
\* open socket whose flag it cleared.
C19_Witness ==
  /\ last.kind = "sweep"
  /\ last.terminated # {}
  /\ \A c \in last.terminated : ws[c].readyState = "CLOSING"
  /\ \E c \in Conns \ last.terminated : ws[c].readyState = "OPEN" /\ ~ws[c].isAlive

\* ---- C20 ----
\* C20: a relayed envelope or a peer-joined, peer-left or roster about room R reaches
\* only sockets whose current room is R.  Stated as claimed; a socket that joined a
\* second room stays in the first room's set and keeps receiving its traffic.
C20_RoomIsolation ==
  (LastIsFanOut \/ LastIsRelay)
    => \A m \in Recipients : ws[m].roomId = FanOutRoom

====
